---- MODULE Spec2Model ----
(***************************************************************************)
(* Cobhan buffer codec (cobhan/src/lib.rs): the encode and decode          *)
(* operations on a caller-owned buffer {length:i32, reserved:i32,          *)
(* payload:[u8]} and the temp files an encode spills to.                   *)
(*                                                                         *)
(* Spec      one caller, each action a whole call of one public function   *)
(* SpecConc  several threads, each on its own buffer, every filesystem     *)
(*           step of a spilling bytes_to_cbuffer a separate action         *)
(***************************************************************************)
EXTENDS Integers, Sequences, FiniteSets

VARIABLES
    buf,        \* the caller's buffer: [length, reserved, payload]
    files,      \* the temp directory: path -> contents (a slice)
    ret,        \* the last call: operation, arguments, result
    delivered,  \* paths handed to the caller by successful spills
    ub,         \* an out-of-bounds copy has happened: behaviour is undefined
    calls,      \* codec calls made so far
    tbuf,       \* SpecConc: each thread's own buffer
    pc,         \* SpecConc: each thread's position in bytes_to_cbuffer
    tcall       \* SpecConc: each thread's call frame

vars == <<buf, files, ret, delivered, ub, calls, tbuf, pc, tcall>>

----------------------------------------------------------------------------
(* Error codes, lib.rs:41-68 *)
ERR_NONE == 0
ERR_NULL_PTR == -1
ERR_BUFFER_TOO_SMALL == -3
ERR_JSON_DECODE_FAILED == -5
ERR_JSON_ENCODE_FAILED == -6
ERR_INVALID_UTF8 == -7
ERR_READ_TEMP_FILE_FAILED == -8
ERR_WRITE_TEMP_FILE_FAILED == -9

(* i32::MAX, the largest value of the length field: 2^31 - 1. *)
I32Max == 2147483647

(* Bounds of the model. *)
MaxLen == 2      \* longest explicitly enumerated payload
MaxCap == 2      \* bytes the caller allocates for the payload region
MaxFiles == 2    \* files the temp directory can hold (disk quota)
NumThreads == 2  \* threads of SpecConc
MaxCalls == 2    \* codec calls in one run

----------------------------------------------------------------------------
(* Bytes: 123 '{' and 125 '}' are ASCII, 195 169 is the two-byte encoding  *)
(* of one character, and 169 or 195 alone is not valid UTF-8.              *)
(* The byte strings the callers encode: the prefixes of "{}{}..", of       *)
(* 195 169 195 169 .. (well-formed at even lengths only) and of            *)
(* 169 195 169 .. (never well-formed).                                     *)
Patterns == {<<123, 125>>, <<195, 169>>, <<169, 195>>}
Prefix(pat, n) == [i \in 1..n |-> pat[((i - 1) % Len(pat)) + 1]]
ByteStrings(n) == {Prefix(pat, k) : pat \in Patterns, k \in 0..n}

(* A usize: over * 2^31 + low, with 0 <= low < 2^31 (TLC's integers end   *)
(* at 2^31 - 1).                                                           *)
USize(over, low) == [over |-> over, low |-> low]
U(n) == USize(0, n)

(* u <= n and u > n for a usize u and an n below 2^31 *)
ULeq(u, n) == u.over = 0 /\ u.low <= n
UExceeds(u, n) == ~ULeq(u, n)

(* `u as i32`: the low 32 bits, read as two's complement.  Bit 31 is the   *)
(* parity of over; when it is set the value is low - 2^31.                 *)
AsI32(u) == IF u.over % 2 = 0 THEN u.low ELSE (u.low - I32Max) - 1

(* 0 - x in i32 (wrapping: 0 - i32::MIN is i32::MIN) *)
Neg32(x) == IF x < 0 - I32Max THEN x ELSE 0 - x

(* A Rust slice &[u8]: its length and its bytes.  A slice too long to      *)
(* enumerate keeps its length and stands for that many copies of HugeFill. *)
HugeFill == 123
Slice(s) == [len |-> U(Len(s)), data |-> s]
EmptySlice == Slice(<<>>)
HugeSlice(u) == [len |-> u, data |-> <<>>]
ByteAt(b, i) == IF i <= Len(b.data) THEN b.data[i] ELSE HugeFill

(* Payload lengths at and beyond the i32 range: 2^31, 2^32 + 1, 2^32 + 3. *)
HugeLens == {USize(1, 0), USize(2, 1), USize(2, 3)}

Payloads ==
    {Slice(s) : s \in ByteStrings(MaxLen)} \cup {HugeSlice(u) : u \in HugeLens}

(* str::from_utf8: well-formed UTF-8 (no overlong forms, no surrogates,    *)
(* nothing above U+10FFFF).                                                *)
IsCont(b) == b >= 128 /\ b <= 191

RECURSIVE IsUtf8Seq(_)
IsUtf8Seq(s) ==
    IF s = <<>> THEN TRUE
    ELSE LET b == Head(s)
             n == Len(s)
         IN  CASE b <= 127 -> IsUtf8Seq(Tail(s))
               [] b >= 194 /\ b <= 223 ->
                    n >= 2 /\ IsCont(s[2]) /\ IsUtf8Seq(SubSeq(s, 3, n))
               [] b = 224 ->
                    n >= 3 /\ s[2] >= 160 /\ s[2] <= 191 /\ IsCont(s[3])
                    /\ IsUtf8Seq(SubSeq(s, 4, n))
               [] (b >= 225 /\ b <= 236) \/ b = 238 \/ b = 239 ->
                    n >= 3 /\ IsCont(s[2]) /\ IsCont(s[3])
                    /\ IsUtf8Seq(SubSeq(s, 4, n))
               [] b = 237 ->
                    n >= 3 /\ s[2] >= 128 /\ s[2] <= 159 /\ IsCont(s[3])
                    /\ IsUtf8Seq(SubSeq(s, 4, n))
               [] b = 240 ->
                    n >= 4 /\ s[2] >= 144 /\ s[2] <= 191 /\ IsCont(s[3])
                    /\ IsCont(s[4]) /\ IsUtf8Seq(SubSeq(s, 5, n))
               [] b >= 241 /\ b <= 243 ->
                    n >= 4 /\ IsCont(s[2]) /\ IsCont(s[3]) /\ IsCont(s[4])
                    /\ IsUtf8Seq(SubSeq(s, 5, n))
               [] b = 244 ->
                    n >= 4 /\ s[2] >= 128 /\ s[2] <= 143 /\ IsCont(s[3])
                    /\ IsCont(s[4]) /\ IsUtf8Seq(SubSeq(s, 5, n))
               [] OTHER -> FALSE

(* The tail of a huge slice is HugeFill, an ASCII byte. *)
IsUtf8(b) == IsUtf8Seq(b.data)

----------------------------------------------------------------------------
(* Pointers and buffers. *)
NULL == "null"
BUF == "buf"
Ptrs == {NULL, BUF}

(* The payload region the caller allocated. *)
Alloc(mem) == Len(mem.payload)

(* from_raw_parts(payload, n).to_vec() *)
PayloadPrefix(mem, n) == Slice(SubSeq(mem.payload, 1, n))

(* A copy that stops one byte short. *)
CopyToPayload_OneShort(mem, bytes) ==
    [i \in 1..Alloc(mem) |-> IF ~ULeq(bytes.len, i) THEN ByteAt(bytes, i) ELSE mem.payload[i]]

(* copy_nonoverlapping(bytes.as_ptr(), payload, bytes_len): the bytes that  *)
(* land inside the allocation.                                             *)
CopyToPayload(mem, bytes) ==
    [i \in 1..Alloc(mem) |-> IF ~ULeq(bytes.len, i - 1) THEN ByteAt(bytes, i) ELSE mem.payload[i]]

----------------------------------------------------------------------------
(* The temp directory.  Paths are byte strings: two of one byte, one of    *)
(* one two-byte character, one that is not valid UTF-8.                    *)
TempPaths == {<<123>>, <<125>>, <<195, 169>>, <<169>>}

Exists(fs, p) == p \in DOMAIN fs

(* fs::remove_file; its result is discarded (`let _ =`). *)
RemoveFile(fs, p) == [q \in DOMAIN fs \ {p} |-> fs[q]]

(* A single write in place of write_all: only the first byte arrives. *)
PutFile_OneWrite(fs, p, bytes) ==
    [q \in DOMAIN fs \cup {p} |->
        IF q # p THEN fs[q]
        ELSE IF ULeq(bytes.len, 1) THEN bytes ELSE Slice(<<ByteAt(bytes, 1)>>)]

(* The file at p holding exactly `bytes`. *)
PutFile(fs, p, bytes) == [q \in DOMAIN fs \cup {p} |-> IF q = p THEN bytes ELSE fs[q]]

(* A create that is not exclusive: a name in use may be handed out again. *)
FreePaths_NotExclusive(fs) ==
    IF Cardinality(DOMAIN fs) >= MaxFiles THEN {} ELSE TempPaths

(* NamedTempFile::new creates its file exclusively: a name in use is never *)
(* handed out.  Nothing is created once the directory is full.             *)
FreePaths(fs) ==
    IF Cardinality(DOMAIN fs) >= MaxFiles THEN {} ELSE TempPaths \ DOMAIN fs

----------------------------------------------------------------------------
(* JSON (serde_json).  Over these bytes the only JSON object text is "{}", *)
(* the empty map.  A value is a map the serializer accepts or one it       *)
(* rejects.                                                                *)
JsonValues == {"empty_map", "unserializable"}
NoJson == "none"

(* serde_json::to_vec *)
JsonToVec(json) ==
    IF json = "empty_map" THEN [ok |-> TRUE, bytes |-> Slice(<<123, 125>>)]
    ELSE [ok |-> FALSE, bytes |-> EmptySlice]

(* serde_json::from_slice::<HashMap<String, Value>> *)
JsonFromSlice(bytes) ==
    IF bytes = Slice(<<123, 125>>) THEN [ok |-> TRUE, json |-> "empty_map"]
    ELSE [ok |-> FALSE, json |-> NoJson]

----------------------------------------------------------------------------
(* Decode.  A result is the call's return value with the memory and the    *)
(* directory as the call leaves them.                                      *)
DecOut(code, val, json, mem, fs, derefs) ==
    [code |-> code, val |-> val, json |-> json, buf |-> mem, files |-> fs,
     derefs |-> derefs]

(* A decode that consumes the spill file it read. *)
TempToVector_Consumes(mem, fs, length) ==
    LET file_name == SubSeq(mem.payload, 1, Neg32(length))
    IN  IF ~IsUtf8Seq(file_name)
        THEN DecOut(ERR_INVALID_UTF8, EmptySlice, NoJson, mem, fs, TRUE)
        ELSE IF ~Exists(fs, file_name)
        THEN DecOut(ERR_READ_TEMP_FILE_FAILED, EmptySlice, NoJson, mem, fs, TRUE)
        ELSE DecOut(ERR_NONE, fs[file_name], NoJson, mem, RemoveFile(fs, file_name), TRUE)

(* temp_to_vector: the path is the first -length payload bytes. *)
TempToVector(mem, fs, length) ==
    LET file_name == SubSeq(mem.payload, 1, Neg32(length))
    IN  IF ~IsUtf8Seq(file_name)
        THEN DecOut(ERR_INVALID_UTF8, EmptySlice, NoJson, mem, fs, TRUE)
        ELSE IF ~Exists(fs, file_name)
        THEN DecOut(ERR_READ_TEMP_FILE_FAILED, EmptySlice, NoJson, mem, fs, TRUE)
        ELSE DecOut(ERR_NONE, fs[file_name], NoJson, mem, fs, TRUE)

(* temp_to_string: fs::read_to_string fails on contents that are not       *)
(* UTF-8, and every failure of it maps to ERR_READ_TEMP_FILE_FAILED.       *)
TempToString(mem, fs, length) ==
    LET file_name == SubSeq(mem.payload, 1, Neg32(length))
    IN  IF ~IsUtf8Seq(file_name)
        THEN DecOut(ERR_INVALID_UTF8, EmptySlice, NoJson, mem, fs, TRUE)
        ELSE IF ~Exists(fs, file_name) \/ ~IsUtf8(fs[file_name])
        THEN DecOut(ERR_READ_TEMP_FILE_FAILED, EmptySlice, NoJson, mem, fs, TRUE)
        ELSE DecOut(ERR_NONE, fs[file_name], NoJson, mem, fs, TRUE)

(* cbuffer_to_vector without its null test. *)
CbufferToVector_NoNullTest(ptr, mem, fs) ==
    LET length == mem.length
    IN  IF length < 0 THEN TempToVector(mem, fs, length)
        ELSE DecOut(ERR_NONE, PayloadPrefix(mem, length), NoJson, mem, fs, TRUE)

(* cbuffer_to_vector *)
CbufferToVector(ptr, mem, fs) ==
    IF ptr = NULL
    THEN DecOut(ERR_NULL_PTR, EmptySlice, NoJson, mem, fs, FALSE)
    ELSE LET length == mem.length
         IN  IF length < 0 THEN TempToVector(mem, fs, length)
             ELSE DecOut(ERR_NONE, PayloadPrefix(mem, length), NoJson, mem, fs, TRUE)

(* cbuffer_to_string *)
CbufferToString(ptr, mem, fs) ==
    IF ptr = NULL
    THEN DecOut(ERR_NULL_PTR, EmptySlice, NoJson, mem, fs, FALSE)
    ELSE LET length == mem.length
         IN  IF length < 0 THEN TempToString(mem, fs, length)
             ELSE IF IsUtf8(PayloadPrefix(mem, length))
             THEN DecOut(ERR_NONE, PayloadPrefix(mem, length), NoJson, mem, fs, TRUE)
             ELSE DecOut(ERR_INVALID_UTF8, EmptySlice, NoJson, mem, fs, TRUE)

(* cbuffer_to_hashmap_json *)
CbufferToHashmapJson(ptr, mem, fs) ==
    IF ptr = NULL
    THEN DecOut(ERR_NULL_PTR, EmptySlice, NoJson, mem, fs, FALSE)
    ELSE LET length == mem.length
             json_bytes == IF length >= 0
                           THEN DecOut(ERR_NONE, PayloadPrefix(mem, length), NoJson, mem, fs, TRUE)
                           ELSE TempToVector(mem, fs, length)
         IN  IF json_bytes.code # ERR_NONE THEN json_bytes
             ELSE LET parsed == JsonFromSlice(json_bytes.val)
                  IN  IF parsed.ok
                      THEN [json_bytes EXCEPT !.val = EmptySlice, !.json = parsed.json]
                      ELSE [json_bytes EXCEPT !.code = ERR_JSON_DECODE_FAILED,
                                              !.val = EmptySlice]

----------------------------------------------------------------------------
(* Encode.  The environment (which name the directory hands out, which     *)
(* filesystem step fails) is not the caller's choice, so an operation is   *)
(* the set of outcomes it can have.                                        *)
(*   code     the value returned                                           *)
(*   buf      the buffer, files the directory, as the call leaves them     *)
(*   derefs   whether the call read or wrote through the pointer           *)
(*   hi       payload bytes written by the call's copy (a usize)           *)
(*   creates  temp files the call created                                  *)
(*   wnf      write_new_file of the call: "none", "ok" or "err"            *)
(*   path     the path write_new_file returned (<<>> without one)          *)
(*   made     the files the call created and left on disk                  *)
EncOut(code, mem, fs, derefs, hi) ==
    [code |-> code, buf |-> mem, files |-> fs, derefs |-> derefs, hi |-> hi,
     creates |-> 0, wnf |-> "none", path |-> <<>>, made |-> {}]

(* write_new_file.  A NamedTempFile that is dropped deletes its file: that *)
(* happens when write_all fails and when keep fails.  After keep the file  *)
(* stays, also when the path is then found not to be UTF-8.                *)
WriteNewFile(fs, bytes) ==
    {[ok |-> FALSE, code |-> ERR_WRITE_TEMP_FILE_FAILED, path |-> <<>>,
      files |-> fs, creates |-> 0]}
    \cup
    UNION {
        {[ok |-> FALSE, code |-> ERR_WRITE_TEMP_FILE_FAILED, path |-> <<>>,
          files |-> RemoveFile(PutFile(fs, p, EmptySlice), p), creates |-> 1],
         [ok |-> FALSE, code |-> ERR_WRITE_TEMP_FILE_FAILED, path |-> <<>>,
          files |-> RemoveFile(PutFile(fs, p, bytes), p), creates |-> 1],
         IF IsUtf8Seq(p)
         THEN [ok |-> TRUE, code |-> ERR_NONE, path |-> p,
               files |-> PutFile(fs, p, bytes), creates |-> 1]
         ELSE [ok |-> FALSE, code |-> ERR_WRITE_TEMP_FILE_FAILED, path |-> <<>>,
               files |-> PutFile(fs, p, bytes), creates |-> 1]}
        : p \in FreePaths(fs)}

RECURSIVE BytesToCbuffer(_, _, _, _)

(* string_to_cbuffer *)
StringToCbuffer(ptr, mem, fs, string) == BytesToCbuffer(ptr, mem, fs, string)

(* The path is stored without the test. *)
PathTooLong_NoTest(mem, tmp_file_path_len) == FALSE

(* The test of line 343: the path does not fit the capacity. *)
PathTooLong(mem, tmp_file_path_len) == mem.length < tmp_file_path_len

(* bytes_to_temp *)
BytesToTemp(ptr, mem, fs, bytes) ==
    UNION {
        IF ~w.ok
        THEN {[EncOut(w.code, mem, w.files, TRUE, U(0)) EXCEPT
                  !.creates = w.creates, !.wnf = "err",
                  !.made = DOMAIN w.files \ DOMAIN fs]}
        ELSE LET tmp_file_path_len == AsI32(U(Len(w.path)))
             IN  IF PathTooLong(mem, tmp_file_path_len)
                 THEN {[EncOut(ERR_BUFFER_TOO_SMALL, mem, RemoveFile(w.files, w.path), TRUE, U(0))
                           EXCEPT !.creates = w.creates, !.wnf = "ok", !.path = w.path]}
                 ELSE {IF r.code # ERR_NONE
                       THEN [r EXCEPT !.files = RemoveFile(r.files, w.path),
                                      !.creates = r.creates + w.creates,
                                      !.wnf = "ok", !.path = w.path,
                                      !.made = r.made \ {w.path}]
                       ELSE [r EXCEPT !.buf.length = Neg32(tmp_file_path_len),
                                      !.creates = r.creates + w.creates,
                                      !.wnf = "ok", !.path = w.path,
                                      !.made = r.made \cup {w.path}]
                       : r \in StringToCbuffer(ptr, mem, w.files, Slice(w.path))}
        : w \in WriteNewFile(fs, bytes)}

(* A capacity test that lets a capacity of 0 through. *)
NoCapacity_ZeroAllowed(buffer_cap) == buffer_cap < 0

(* The test of line 306. *)
NoCapacity(buffer_cap) == buffer_cap <= 0

(* The test of line 314: compared after the conversion to i32. *)
NeedsSpill(buffer_cap, bytes_len) == buffer_cap < AsI32(bytes_len)

(* bytes_to_cbuffer *)
BytesToCbuffer(ptr, mem, fs, bytes) ==
    IF ptr = NULL THEN {EncOut(ERR_NULL_PTR, mem, fs, FALSE, U(0))}
    ELSE LET buffer_cap == mem.length
             bytes_len == bytes.len
         IN  IF NoCapacity(buffer_cap) THEN {EncOut(ERR_BUFFER_TOO_SMALL, mem, fs, TRUE, U(0))}
             ELSE IF NeedsSpill(buffer_cap, bytes_len)
             THEN BytesToTemp(ptr, mem, fs, bytes)
             ELSE {EncOut(ERR_NONE,
                          [mem EXCEPT !.payload = CopyToPayload(mem, bytes),
                                      !.length = AsI32(bytes_len)],
                          fs, TRUE, bytes_len)}

(* hashmap_json_to_cbuffer: the value is serialized before the pointer is  *)
(* looked at.                                                              *)
HashmapJsonToCbuffer(json, ptr, mem, fs) ==
    LET json_bytes == JsonToVec(json)
    IN  IF json_bytes.ok THEN BytesToCbuffer(ptr, mem, fs, json_bytes.bytes)
        ELSE {EncOut(ERR_JSON_ENCODE_FAILED, mem, fs, FALSE, U(0))}

----------------------------------------------------------------------------
(* The state after construction: the caller has allocated MaxCap payload   *)
(* bytes and set the length field to that capacity.                        *)
Threads == 1..NumThreads

NewBuffer ==
    [length |-> MaxCap, reserved |-> 0, payload |-> [i \in 1..MaxCap |-> HugeFill]]

NoCall ==
    [op |-> "none", ptr |-> NULL, arg |-> EmptySlice, json_arg |-> NoJson,
     cap0 |-> 0, code |-> ERR_NONE, val |-> EmptySlice, json |-> NoJson,
     derefs |-> FALSE, hi |-> U(0), creates |-> 0, wnf |-> "none", path |-> <<>>,
     made |-> {}]

NoFrame == [bytes |-> EmptySlice, path |-> <<>>, code |-> ERR_NONE, spilled |-> FALSE]

Init ==
    /\ buf = NewBuffer
    /\ files = [p \in {} |-> EmptySlice]
    /\ ret = NoCall
    /\ delivered = {}
    /\ ub = FALSE
    /\ calls = 0
    /\ tbuf = [t \in Threads |-> NewBuffer]
    /\ pc = [t \in Threads |-> "idle"]
    /\ tcall = [t \in Threads |-> NoFrame]

EncodeOps == {"bytes_to_cbuffer", "string_to_cbuffer", "hashmap_json_to_cbuffer"}
DecodeOps == {"cbuffer_to_vector", "cbuffer_to_string", "cbuffer_to_hashmap_json"}

(* The call's outcome becomes the state. *)
EncodeReturns(op, ptr, bytes, json, o) ==
    /\ buf' = o.buf
    /\ files' = o.files
    /\ delivered' = IF o.code = ERR_NONE /\ o.wnf = "ok"
                    THEN delivered \cup {o.path} ELSE delivered
    /\ ub' = UExceeds(o.hi, Alloc(buf))
    /\ calls' = calls + 1
    /\ ret' = [op |-> op, ptr |-> ptr, arg |-> bytes, json_arg |-> json,
               cap0 |-> IF ptr = NULL THEN 0 ELSE buf.length,
               code |-> o.code, val |-> EmptySlice, json |-> NoJson,
               derefs |-> o.derefs, hi |-> o.hi, creates |-> o.creates,
               wnf |-> o.wnf, path |-> o.path, made |-> o.made]
    /\ UNCHANGED <<tbuf, pc, tcall>>

DecodeReturns(op, ptr, o) ==
    /\ buf' = o.buf
    /\ files' = o.files
    /\ ret' = [NoCall EXCEPT !.op = op, !.ptr = ptr,
                             !.cap0 = IF ptr = NULL THEN 0 ELSE buf.length,
                             !.code = o.code, !.val = o.val, !.json = o.json,
                             !.derefs = o.derefs]
    /\ calls' = calls + 1
    /\ UNCHANGED <<delivered, ub, tbuf, pc, tcall>>

CallBytesToCbuffer(ptr, bytes) ==
    /\ ~ub
    /\ calls < MaxCalls
    /\ \E o \in BytesToCbuffer(ptr, buf, files, bytes) :
           EncodeReturns("bytes_to_cbuffer", ptr, bytes, NoJson, o)

(* A &str is valid UTF-8 by construction. *)
CallStringToCbuffer(ptr, string) ==
    /\ ~ub
    /\ calls < MaxCalls
    /\ IsUtf8(string)
    /\ \E o \in StringToCbuffer(ptr, buf, files, string) :
           EncodeReturns("string_to_cbuffer", ptr, string, NoJson, o)

CallHashmapJsonToCbuffer(ptr, json) ==
    /\ ~ub
    /\ calls < MaxCalls
    /\ \E o \in HashmapJsonToCbuffer(json, ptr, buf, files) :
           EncodeReturns("hashmap_json_to_cbuffer", ptr, JsonToVec(json).bytes, json, o)

CallCbufferToVector(ptr) ==
    /\ ~ub
    /\ calls < MaxCalls
    /\ DecodeReturns("cbuffer_to_vector", ptr, CbufferToVector(ptr, buf, files))

CallCbufferToString(ptr) ==
    /\ ~ub
    /\ calls < MaxCalls
    /\ DecodeReturns("cbuffer_to_string", ptr, CbufferToString(ptr, buf, files))

CallCbufferToHashmapJson(ptr) ==
    /\ ~ub
    /\ calls < MaxCalls
    /\ DecodeReturns("cbuffer_to_hashmap_json", ptr, CbufferToHashmapJson(ptr, buf, files))

(* Between calls the caller owns the buffer: it sets the length field to   *)
(* the capacity it wants used (at most what it allocated) before an        *)
(* encode, or to a length or spill indicator it received before a decode.  *)
CallerSetsLength(n) ==
    /\ ~ub
    /\ calls < MaxCalls
    /\ n # buf.length
    /\ buf' = [buf EXCEPT !.length = n]
    /\ ret' = NoCall
    /\ UNCHANGED <<files, delivered, ub, calls, tbuf, pc, tcall>>

Next ==
    \/ \E ptr \in Ptrs, bytes \in Payloads : CallBytesToCbuffer(ptr, bytes)
    \/ \E ptr \in Ptrs, string \in Payloads : CallStringToCbuffer(ptr, string)
    \/ \E ptr \in Ptrs, json \in JsonValues : CallHashmapJsonToCbuffer(ptr, json)
    \/ \E ptr \in Ptrs : CallCbufferToVector(ptr)
    \/ \E ptr \in Ptrs : CallCbufferToString(ptr)
    \/ \E ptr \in Ptrs : CallCbufferToHashmapJson(ptr)
    \/ \E n \in (0 - MaxCap)..MaxCap : CallerSetsLength(n)

Spec == Init /\ [][Next]_vars

----------------------------------------------------------------------------
(* Concurrent calls of bytes_to_cbuffer, one thread per buffer.  A         *)
(* thread's reads and writes of its own buffer are private to it; every    *)
(* operation on the shared temp directory is a step of its own.            *)
(*   pc: idle -> create -> write -> keep -> into_string -> fit -> idle     *)
(*                                                          \-> remove     *)
ConcPayloads == {Slice(Prefix(pat, MaxLen)) : pat \in Patterns}

Returns(t, code, spilled) ==
    /\ pc' = [pc EXCEPT ![t] = "idle"]
    /\ tcall' = [tcall EXCEPT ![t].code = code, ![t].spilled = spilled]

(* The thread's caller sets the length field of its buffer to the          *)
(* capacity and calls bytes_to_cbuffer; lines 293-324, everything but the  *)
(* call of bytes_to_temp.                                                  *)
ThreadCalls(t, cap, bytes) ==
    /\ pc[t] = "idle"
    /\ calls < MaxCalls
    /\ calls' = calls + 1
    /\ LET mem == [tbuf[t] EXCEPT !.length = cap]
       IN  IF ~NoCapacity(mem.length) /\ NeedsSpill(mem.length, bytes.len)
           THEN /\ pc' = [pc EXCEPT ![t] = "create"]
                /\ tcall' = [tcall EXCEPT ![t] = [NoFrame EXCEPT !.bytes = bytes]]
                /\ tbuf' = [tbuf EXCEPT ![t] = mem]
           ELSE \E o \in BytesToCbuffer(BUF, mem, files, bytes) :
                    /\ tbuf' = [tbuf EXCEPT ![t] = o.buf]
                    /\ pc' = pc
                    /\ tcall' = [tcall EXCEPT ![t] = [NoFrame EXCEPT !.bytes = bytes,
                                                                     !.code = o.code]]
    /\ UNCHANGED <<buf, files, ret, delivered, ub>>

(* line 371: NamedTempFile::new *)
ThreadCreates(t) ==
    /\ pc[t] = "create"
    /\ \/ /\ Returns(t, ERR_WRITE_TEMP_FILE_FAILED, FALSE)
          /\ UNCHANGED files
       \/ \E p \in FreePaths(files) :
              /\ files' = PutFile(files, p, EmptySlice)
              /\ tcall' = [tcall EXCEPT ![t].path = p]
              /\ pc' = [pc EXCEPT ![t] = "write"]
    /\ UNCHANGED <<buf, ret, delivered, ub, calls, tbuf>>

(* lines 373-375: write_all; on failure the NamedTempFile is dropped *)
ThreadWrites(t) ==
    /\ pc[t] = "write"
    /\ \/ /\ files' = PutFile(files, tcall[t].path, tcall[t].bytes)
          /\ pc' = [pc EXCEPT ![t] = "keep"]
          /\ UNCHANGED tcall
       \/ /\ files' = RemoveFile(files, tcall[t].path)
          /\ Returns(t, ERR_WRITE_TEMP_FILE_FAILED, FALSE)
    /\ UNCHANGED <<buf, ret, delivered, ub, calls, tbuf>>

(* line 377: keep; on failure the NamedTempFile is dropped *)
ThreadKeeps(t) ==
    /\ pc[t] = "keep"
    /\ \/ /\ pc' = [pc EXCEPT ![t] = "into_string"]
          /\ UNCHANGED <<files, tcall>>
       \/ /\ files' = RemoveFile(files, tcall[t].path)
          /\ Returns(t, ERR_WRITE_TEMP_FILE_FAILED, FALSE)
    /\ UNCHANGED <<buf, ret, delivered, ub, calls, tbuf>>

(* lines 379-381: into_string *)
ThreadPathToString(t) ==
    /\ pc[t] = "into_string"
    /\ IF IsUtf8Seq(tcall[t].path)
       THEN /\ pc' = [pc EXCEPT ![t] = "fit"]
            /\ UNCHANGED tcall
       ELSE Returns(t, ERR_WRITE_TEMP_FILE_FAILED, FALSE)
    /\ UNCHANGED <<buf, files, ret, delivered, ub, calls, tbuf>>

(* lines 339-366, but for the remove_file of line 350 *)
ThreadStoresPath(t) ==
    /\ pc[t] = "fit"
    /\ LET tmp_file_path_len == AsI32(U(Len(tcall[t].path)))
       IN  IF PathTooLong(tbuf[t], tmp_file_path_len)
           THEN /\ pc' = [pc EXCEPT ![t] = "remove"]
                /\ UNCHANGED <<tcall, tbuf, files, delivered>>
           ELSE \E r \in StringToCbuffer(BUF, tbuf[t], files, Slice(tcall[t].path)) :
                    IF r.code # ERR_NONE
                    THEN /\ files' = RemoveFile(r.files, tcall[t].path)
                         /\ tbuf' = [tbuf EXCEPT ![t] = r.buf]
                         /\ Returns(t, r.code, FALSE)
                         /\ UNCHANGED delivered
                    ELSE /\ files' = r.files
                         /\ tbuf' = [tbuf EXCEPT ![t] =
                                        [r.buf EXCEPT !.length = Neg32(tmp_file_path_len)]]
                         /\ Returns(t, ERR_NONE, TRUE)
                         /\ delivered' = delivered \cup {tcall[t].path}
    /\ UNCHANGED <<buf, ret, ub, calls>>

(* lines 350-351 *)
ThreadRemoves(t) ==
    /\ pc[t] = "remove"
    /\ files' = RemoveFile(files, tcall[t].path)
    /\ Returns(t, ERR_BUFFER_TOO_SMALL, FALSE)
    /\ UNCHANGED <<buf, ret, delivered, ub, calls, tbuf>>

NextConc ==
    \/ \E t \in Threads, cap \in 1..MaxCap, bytes \in ConcPayloads :
           ThreadCalls(t, cap, bytes)
    \/ \E t \in Threads : ThreadCreates(t)
    \/ \E t \in Threads : ThreadWrites(t)
    \/ \E t \in Threads : ThreadKeeps(t)
    \/ \E t \in Threads : ThreadPathToString(t)
    \/ \E t \in Threads : ThreadStoresPath(t)
    \/ \E t \in Threads : ThreadRemoves(t)

SpecConc == Init /\ [][NextConc]_vars

----------------------------------------------------------------------------
(* Claims.                                                                 *)

IsEncode(r) == r.op \in EncodeOps
IsDecode(r) == r.op \in DecodeOps

(* C1: bytes_to_cbuffer of b into a buffer of capacity c > 0 with          *)
(* len(b) <= c returns ERR_NONE, sets the length field to len(b), writes b *)
(* at payload offsets [0, len(b)), and cbuffer_to_vector then returns b.   *)
C1_InlineRoundTrip ==
    (/\ ret.op = "bytes_to_cbuffer"
     /\ ret.ptr = BUF
     /\ ret.cap0 > 0
     /\ ULeq(ret.arg.len, ret.cap0))
    => /\ ret.code = ERR_NONE
       /\ buf.length = ret.arg.len.low
       /\ SubSeq(buf.payload, 1, ret.arg.len.low) = ret.arg.data
       /\ CbufferToVector(BUF, buf, files).code = ERR_NONE
       /\ CbufferToVector(BUF, buf, files).val = ret.arg

C1_Witness ==
    /\ ret.op = "bytes_to_cbuffer"
    /\ ret.ptr = BUF
    /\ ret.cap0 = MaxCap
    /\ ret.arg = Slice(<<195, 169>>)
    /\ ret.code = ERR_NONE
    /\ buf.payload[1] = 195

(* C2: bytes_to_cbuffer of b longer than the capacity c > 0, when          *)
(* write_new_file returned path p with len(p) <= c, returns ERR_NONE,      *)
(* leaves the length field at -len(p) < 0, p in the payload and a file at  *)
(* p holding b, and cbuffer_to_vector then returns b.                      *)
C2_SpillRoundTrip ==
    (/\ ret.op = "bytes_to_cbuffer"
     /\ ret.ptr = BUF
     /\ ret.cap0 > 0
     /\ UExceeds(ret.arg.len, ret.cap0)
     /\ ret.wnf = "ok"
     /\ Len(ret.path) <= ret.cap0)
    => /\ ret.code = ERR_NONE
       /\ buf.length < 0
       /\ 0 - buf.length = Len(ret.path)
       /\ SubSeq(buf.payload, 1, Len(ret.path)) = ret.path
       /\ Exists(files, ret.path)
       /\ files[ret.path] = ret.arg
       /\ CbufferToVector(BUF, buf, files).code = ERR_NONE
       /\ CbufferToVector(BUF, buf, files).val = ret.arg

C2_Witness ==
    /\ ret.op = "bytes_to_cbuffer"
    /\ ret.ptr = BUF
    /\ ret.cap0 = 1
    /\ ret.arg = Slice(<<169, 195>>)
    /\ ret.path = <<125>>
    /\ ret.code = ERR_NONE
    /\ buf.length = -1

(* C3: when an encode spills and the path write_new_file returned is      *)
(* longer than the capacity the length field held before the call, the     *)
(* encode returns ERR_BUFFER_TOO_SMALL, has created one temp file only,    *)
(* and that file is gone when the call returns.                            *)
C3_PathDoesNotFit ==
    (/\ IsEncode(ret)
     /\ ret.wnf = "ok"
     /\ Len(ret.path) > ret.cap0)
    => /\ ret.code = ERR_BUFFER_TOO_SMALL
       /\ ret.creates = 1
       /\ ret.made = {}
       /\ ~Exists(files, ret.path)

C3_Witness ==
    /\ ret.op = "bytes_to_cbuffer"
    /\ ret.cap0 = 1
    /\ ret.arg = Slice(<<123, 125>>)
    /\ ret.wnf = "ok"
    /\ ret.path = <<195, 169>>
    /\ ret.code = ERR_BUFFER_TOO_SMALL

(* C4: an encode (for hashmap_json_to_cbuffer, of a value the serializer   *)
(* accepts) into a non-null buffer whose length field is 0 or negative     *)
(* returns ERR_BUFFER_TOO_SMALL whatever the payload, creates no temp      *)
(* file and leaves the buffer and the directory as they were.              *)
C4_NoCapacity ==
    [][(/\ IsEncode(ret')
        /\ ret'.ptr = BUF
        /\ calls' = calls + 1
        /\ buf.length <= 0
        /\ (ret'.op = "hashmap_json_to_cbuffer" => JsonToVec(ret'.json_arg).ok))
       => /\ ret'.code = ERR_BUFFER_TOO_SMALL
          /\ ret'.creates = 0
          /\ ret'.hi = U(0)
          /\ buf' = buf
          /\ files' = files]_vars

C4_Witness ==
    /\ IsEncode(ret)
    /\ ret.ptr = BUF
    /\ ret.cap0 = 0
    /\ ret.arg = EmptySlice
    /\ ret.code = ERR_BUFFER_TOO_SMALL
    /\ files = [p \in {} |-> EmptySlice]

(* C5 as stated: every decode and every encode operation given a null      *)
(* pointer returns ERR_NULL_PTR, touches no memory and creates no temp     *)
(* file.                                                                   *)
C5_NullPointerAlways ==
    ((IsEncode(ret) \/ IsDecode(ret)) /\ ret.ptr = NULL)
    => /\ ret.code = ERR_NULL_PTR
       /\ ~ret.derefs
       /\ ret.creates = 0

(* C5 as amended: given a null pointer, every decode operation,            *)
(* bytes_to_cbuffer, string_to_cbuffer, and hashmap_json_to_cbuffer of a   *)
(* value the serializer accepts return ERR_NULL_PTR;                       *)
(* hashmap_json_to_cbuffer of a value the serializer rejects returns       *)
(* ERR_JSON_ENCODE_FAILED.  In every case no memory is touched and no      *)
(* temp file is created.                                                   *)
C5_NullPointer ==
    ((IsEncode(ret) \/ IsDecode(ret)) /\ ret.ptr = NULL)
    => /\ ret.code = IF ret.op = "hashmap_json_to_cbuffer" /\ ~JsonToVec(ret.json_arg).ok
                     THEN ERR_JSON_ENCODE_FAILED
                     ELSE ERR_NULL_PTR
       /\ ~ret.derefs
       /\ ret.creates = 0
       /\ ret.made = {}

C5_Witness ==
    /\ ret.op = "cbuffer_to_vector"
    /\ ret.ptr = NULL
    /\ ret.code = ERR_NULL_PTR
    /\ buf.length < 0
    /\ DOMAIN files # {}

(* C6: cbuffer_to_string returns ERR_INVALID_UTF8 whenever the bytes       *)
(* cbuffer_to_vector returns for the same buffer (the inline payload, or   *)
(* the contents of the spill file) are not valid UTF-8.                    *)
C6_StringDecodeRejectsInvalidUtf8 ==
    (/\ ret.op = "cbuffer_to_string"
     /\ ret.ptr = BUF
     /\ CbufferToVector(BUF, buf, files).code = ERR_NONE
     /\ ~IsUtf8(CbufferToVector(BUF, buf, files).val))
    => ret.code = ERR_INVALID_UTF8

(* C7: an encode that returns an error leaves none of the temp files it    *)
(* created, so the files on disk are exactly those whose paths successful  *)
(* spills delivered.                                                       *)
C7_NoOrphanedTempFile ==
    /\ (IsEncode(ret) /\ ret.code # ERR_NONE) => ret.made = {}
    /\ DOMAIN files = delivered

(* C9: a decode, successful or not, leaves the length field, the reserved  *)
(* field, the payload and the directory unchanged, and a decode repeated   *)
(* on the same buffer returns what the one before it returned.             *)
DecodeAgain(r) ==
    CASE r.op = "cbuffer_to_vector" -> CbufferToVector(r.ptr, buf, files)
      [] r.op = "cbuffer_to_string" -> CbufferToString(r.ptr, buf, files)
      [] r.op = "cbuffer_to_hashmap_json" -> CbufferToHashmapJson(r.ptr, buf, files)

C9_DecodeReadsOnly ==
    /\ [][(IsDecode(ret') /\ calls' = calls + 1)
          => /\ buf' = buf
             /\ files' = files
             /\ (ret.op = ret'.op /\ ret.ptr = ret'.ptr) => ret' = ret]_vars
    /\ [](IsDecode(ret)
          => /\ DecodeAgain(ret).code = ret.code
             /\ DecodeAgain(ret).val = ret.val
             /\ DecodeAgain(ret).json = ret.json
             /\ DecodeAgain(ret).buf = buf
             /\ DecodeAgain(ret).files = files)

C9_Witness ==
    /\ ret.op = "cbuffer_to_vector"
    /\ ret.ptr = BUF
    /\ buf.length < 0
    /\ ret.code = ERR_NONE
    /\ ret.val = Slice(<<169, 195>>)
    /\ calls = MaxCalls

(* C10: an encode into a buffer of capacity c > 0 writes no payload byte   *)
(* at an offset >= c, spills every payload longer than c, and leaves a     *)
(* length field that, when non-negative, is at most c.                     *)
C10_NeverWritesPastCapacity ==
    (IsEncode(ret) /\ ret.ptr = BUF /\ ret.cap0 > 0)
    => /\ ULeq(ret.hi, ret.cap0)
       /\ UExceeds(ret.arg.len, ret.cap0) => ret.wnf # "none"
       /\ buf.length >= 0 => buf.length <= ret.cap0

(* C8 (SpecConc): concurrent spills never collide.  A thread whose call    *)
(* succeeded by spilling has its path in its buffer and its payload in     *)
(* the file there; two such threads hold different paths; and no step of   *)
(* any thread changes or removes a file a spill has delivered.             *)
SpilledPath(t) == SubSeq(tbuf[t].payload, 1, 0 - tbuf[t].length)
HasSpilled(t) == pc[t] = "idle" /\ tcall[t].spilled

C8_SpillsNeverCollide ==
    /\ [](\A t \in Threads :
             HasSpilled(t)
             => /\ tcall[t].code = ERR_NONE
                /\ tbuf[t].length < 0
                /\ SpilledPath(t) = tcall[t].path
                /\ Exists(files, SpilledPath(t))
                /\ files[SpilledPath(t)] = tcall[t].bytes)
    /\ [](\A t, u \in Threads :
             (t # u /\ HasSpilled(t) /\ HasSpilled(u)) => SpilledPath(t) # SpilledPath(u))
    /\ [][\A p \in delivered : Exists(files', p) /\ files'[p] = files[p]]_vars

C8_Witness ==
    /\ \A t \in Threads : HasSpilled(t)
    /\ \E t, u \in Threads : tcall[t].bytes # tcall[u].bytes

====
